---- MODULE Spec2Model ----
(***************************************************************************)
(* Fuse encoding engine of galette: the fuse state (gal.rs) and the        *)
(* per-device build sequences with mode inference (gal_builder.rs).        *)
(***************************************************************************)
EXTENDS Integers, Sequences, FiniteSets, TLC

VARIABLES
    bp,      \* the Blueprint handed to build(): chip, sig, olmcs, ar, sp
    pc,      \* position inside build() / the function under test
    i,       \* loop index of set_core_eqns / set_aux_eqns
    result,  \* Result<(), Error> of the build or of the last add_term call
    call,    \* arguments of the last add_term / add_term_opt call
    mode,    \* value returned by analyse_mode
    gal      \* the GAL struct: fuses, xor, sig, ac1, pt, syn, ac0

vars == <<bp, pc, i, result, call, mode, gal>>

(***************************************************************************)
(* Option<T>: None is the empty sequence, Some(x) the one-element sequence *)
(***************************************************************************)
None == <<>>
Some(x) == <<x>>
is_some(o) == Len(o) = 1
is_none(o) == Len(o) = 0

(***************************************************************************)
(* Pin, Term, Bounds                                                       *)
(***************************************************************************)
Pin(p, n) == [pin |-> p, neg |-> n]

Term(l, ps) == [line_num |-> l, pins |-> ps]

true_term(line_num) == Term(line_num, << <<>> >>)

false_term(line_num) == Term(line_num, <<>>)

Bounds(s, m, o) == [start_row |-> s, max_row |-> m, row_offset |-> o]

(***************************************************************************)
(* Result<(), Error>: Error is an ErrorCode tagged with a line (at_line).  *)
(* ErrorCode payloads are kept in fixed fields, empty when not used.       *)
(***************************************************************************)
ErrCode(c, sfx, p, nm, mx, sn) ==
    [code |-> c, suffix |-> sfx, pin |-> p, name |-> nm, max |-> mx, seen |-> sn]

Code(c) == ErrCode(c, "", 0, "", 0, 0)

Ok == [kind |-> "ok", line |-> 0, code |-> "", suffix |-> "",
       pin |-> 0, name |-> "", max |-> 0, seen |-> 0]

\* Result<(), ErrorCode>: an ErrorCode, OkCode standing for Ok(()).
OkCode == Code("")

\* at_line: Result<(), ErrorCode> -> Result<(), Error>
at_line(line, ec) ==
    IF ec.code = "" THEN Ok
    ELSE [kind |-> "err", line |-> line, code |-> ec.code, suffix |-> ec.suffix,
          pin |-> ec.pin, name |-> ec.name, max |-> ec.max, seen |-> ec.seen]

Pending == [kind |-> "pending", line |-> 0, code |-> "", suffix |-> "",
            pin |-> 0, name |-> "", max |-> 0, seen |-> 0]

is_err(r) == r.kind = "err"

\* A &mut GAL method returning Result<(), Error>: the GAL as the call left it,
\* and the result.
Ret(g, r) == [gal |-> g, res |-> r]

\* The ? operator: return the error, or go on with the GAL as mutated so far.
Try(r, F(_)) == IF is_err(r.res) THEN r ELSE F(r.gal)

(***************************************************************************)
(* Device capability (chips.rs, not part of the sources at hand): the      *)
(* geometry of the four devices.                                           *)
(***************************************************************************)
Chips == {"GAL16V8", "GAL20V8", "GAL22V10", "GAL20RA10"}

num_olmcs(chip) == IF chip \in {"GAL16V8", "GAL20V8"} THEN 8 ELSE 10

num_cols(chip) ==
    CASE chip = "GAL16V8" -> 32
      [] chip = "GAL20V8" -> 40
      [] chip = "GAL22V10" -> 44
      [] chip = "GAL20RA10" -> 40

num_rows(chip) ==
    CASE chip = "GAL16V8" -> 64
      [] chip = "GAL20V8" -> 64
      [] chip = "GAL22V10" -> 132
      [] chip = "GAL20RA10" -> 80

logic_size(chip) == num_rows(chip) * num_cols(chip)

num_pins(chip) == IF chip = "GAL16V8" THEN 20 ELSE 24

min_olmc_pin(chip) ==
    CASE chip = "GAL16V8" -> 12
      [] chip = "GAL20V8" -> 15
      [] chip = "GAL22V10" -> 14
      [] chip = "GAL20RA10" -> 14

pin_to_olmc(chip, pin_num) ==
    IF pin_num >= min_olmc_pin(chip) /\ pin_num < min_olmc_pin(chip) + num_olmcs(chip)
    THEN Some(pin_num - min_olmc_pin(chip))
    ELSE None

OLMC_ROWS_22V10 == <<122, 111, 98, 83, 66, 49, 34, 21, 10, 1>>

OLMC_SIZE_22V10 == <<9, 11, 13, 15, 17, 17, 15, 13, 11, 9>>

get_bounds(chip, n) ==
    IF chip = "GAL22V10"
    THEN Bounds(OLMC_ROWS_22V10[n + 1], OLMC_SIZE_22V10[n + 1], 0)
    ELSE Bounds((num_olmcs(chip) - 1 - n) * 8, 8, 0)

(***************************************************************************)
(* gal.rs: pin-to-column tables.  An entry is Ok(column) or an ErrorCode.  *)
(***************************************************************************)
Col(c) == [ok |-> TRUE, col |-> c, err |-> Code("")]

ColErr(ec) == [ok |-> FALSE, col |-> 0, err |-> ec]

BAD == ColErr(Code("BadAnalysis"))
PWR == ColErr(Code("BadPower"))
REG_P1 == ColErr(ErrCode("ReservedRegisteredInput", "", 1, "Clock", 0, 0))
REG_P11 == ColErr(ErrCode("ReservedRegisteredInput", "", 11, "/OE", 0, 0))
REG_P13 == ColErr(ErrCode("ReservedRegisteredInput", "", 13, "/OE", 0, 0))
CPLX_P12 == ColErr(ErrCode("NotAnComplexModeInput", "", 12, "", 0, 0))
CPLX_P15 == ColErr(ErrCode("NotAnComplexModeInput", "", 15, "", 0, 0))
CPLX_P19 == ColErr(ErrCode("NotAnComplexModeInput", "", 19, "", 0, 0))
CPLX_P22 == ColErr(ErrCode("NotAnComplexModeInput", "", 22, "", 0, 0))
P1_20RA10 == ColErr(ErrCode("ReservedInputGAL20RA10", "", 1, "/PL", 0, 0))
P13_20RA10 == ColErr(ErrCode("ReservedInputGAL20RA10", "", 13, "/OE", 0, 0))

PIN_TO_COL_16_SIMPLE == <<
    Col(2),  Col(0),  Col(4),  Col(8),  Col(12), Col(16), Col(20), Col(24), Col(28), PWR,
    Col(30), Col(26), Col(22), Col(18), BAD,     BAD,     Col(14), Col(10), Col(6),  PWR >>

PIN_TO_COL_16_COMPLEX == <<
    Col(2),  Col(0),   Col(4),  Col(8),  Col(12), Col(16), Col(20), Col(24), Col(28),  PWR,
    Col(30), CPLX_P12, Col(26), Col(22), Col(18), Col(14), Col(10), Col(6),  CPLX_P19, PWR >>

PIN_TO_COL_16_REGISTERED == <<
    REG_P1,  Col(0),  Col(4),  Col(8),  Col(12), Col(16), Col(20), Col(24), Col(28), PWR,
    REG_P11, Col(30), Col(26), Col(22), Col(18), Col(14), Col(10), Col(6),  Col(2),  PWR >>

PIN_TO_COL_20_SIMPLE == <<
    Col(2),  Col(0),  Col(4),  Col(8),  Col(12), Col(16), Col(20), Col(24), Col(28), Col(32), Col(36), PWR,
    Col(38), Col(34), Col(30), Col(26), Col(22), BAD,     BAD,     Col(18), Col(14), Col(10), Col(6),  PWR >>

PIN_TO_COL_20_COMPLEX == <<
    Col(2),  Col(0),  Col(4),   Col(8),  Col(12), Col(16), Col(20), Col(24), Col(28), Col(32),  Col(36), PWR,
    Col(38), Col(34), CPLX_P15, Col(30), Col(26), Col(22), Col(18), Col(14), Col(10), CPLX_P22, Col(6),  PWR >>

PIN_TO_COL_20_REGISTERED == <<
    REG_P1,  Col(0),  Col(4),  Col(8),  Col(12), Col(16), Col(20), Col(24), Col(28), Col(32), Col(36), PWR,
    REG_P13, Col(38), Col(34), Col(30), Col(26), Col(22), Col(18), Col(14), Col(10), Col(6),  Col(2),  PWR >>

PIN_TO_COL_22V10 == <<
    Col(0),  Col(4),  Col(8),  Col(12), Col(16), Col(20), Col(24), Col(28), Col(32), Col(36), Col(40), PWR,
    Col(42), Col(38), Col(34), Col(30), Col(26), Col(22), Col(18), Col(14), Col(10), Col(6),  Col(2),  PWR >>

PIN_TO_COL_20RA10 == <<
    P1_20RA10,  Col(0),  Col(4),  Col(8),  Col(12), Col(16), Col(20), Col(24), Col(28), Col(32), Col(36), PWR,
    P13_20RA10, Col(38), Col(34), Col(30), Col(26), Col(22), Col(18), Col(14), Col(10), Col(6),  Col(2),  PWR >>

(***************************************************************************)
(* gal.rs: impl GAL.  The Vec<bool> fuses is a sequence: fuses[k] of the   *)
(* source is fuses[k + 1] here.  The per-OLMC and signature vectors keep   *)
(* the source's indices.                                                   *)
(***************************************************************************)
\* Mutant of GAL_new: the per-OLMC, signature and PT vectors start intact too.
GAL_new_all_intact(chip) ==
    [chip |-> chip,
     fuses |-> [k \in 1 .. logic_size(chip) |-> TRUE],
     xor |-> [k \in 0 .. num_olmcs(chip) - 1 |-> TRUE],
     sig |-> [k \in 0 .. 63 |-> TRUE],
     ac1 |-> [k \in 0 .. num_olmcs(chip) - 1 |-> TRUE],
     pt |-> [k \in 0 .. 63 |-> TRUE],
     syn |-> FALSE,
     ac0 |-> FALSE]

GAL_new(chip) ==
    [chip |-> chip,
     fuses |-> [k \in 1 .. logic_size(chip) |-> TRUE],
     xor |-> [k \in 0 .. num_olmcs(chip) - 1 |-> FALSE],
     sig |-> [k \in 0 .. 63 |-> FALSE],
     ac1 |-> [k \in 0 .. num_olmcs(chip) - 1 |-> FALSE],
     pt |-> [k \in 0 .. 63 |-> FALSE],
     syn |-> FALSE,
     ac0 |-> FALSE]

set_mode(g, m) ==
    CASE m = "Simple" -> [g EXCEPT !.syn = TRUE, !.ac0 = FALSE]
      [] m = "Complex" -> [g EXCEPT !.syn = TRUE, !.ac0 = TRUE]
      [] m = "Registered" -> [g EXCEPT !.syn = FALSE, !.ac0 = TRUE]

\* (false, false) panics in the source; the CASE has no arm for it either.
get_mode(g) ==
    CASE g.syn /\ ~g.ac0 -> "Simple"
      [] g.syn /\ g.ac0 -> "Complex"
      [] ~g.syn /\ g.ac0 -> "Registered"

\* Mutant of needs_flip: the registered flag of the OLMC is not consulted.
needs_flip_active_high(g, pin_num) ==
    IF g.chip # "GAL22V10" THEN FALSE
    ELSE IF is_some(pin_to_olmc(g.chip, pin_num))
         THEN g.xor[num_olmcs(g.chip) - 1 - pin_to_olmc(g.chip, pin_num)[1]]
         ELSE FALSE

needs_flip(g, pin_num) ==
    IF g.chip # "GAL22V10" THEN FALSE
    ELSE IF is_some(pin_to_olmc(g.chip, pin_num))
         THEN LET olmc_idx == num_olmcs(g.chip) - 1 - pin_to_olmc(g.chip, pin_num)[1]
                  registered == ~g.ac1[olmc_idx]
                  active_high == g.xor[olmc_idx]
              IN  registered /\ active_high
         ELSE FALSE

pin_to_column(g, pin_num) ==
    LET column_lookup ==
            CASE g.chip = "GAL16V8" ->
                    (CASE get_mode(g) = "Simple" -> PIN_TO_COL_16_SIMPLE
                       [] get_mode(g) = "Complex" -> PIN_TO_COL_16_COMPLEX
                       [] get_mode(g) = "Registered" -> PIN_TO_COL_16_REGISTERED)
              [] g.chip = "GAL20V8" ->
                    (CASE get_mode(g) = "Simple" -> PIN_TO_COL_20_SIMPLE
                       [] get_mode(g) = "Complex" -> PIN_TO_COL_20_COMPLEX
                       [] get_mode(g) = "Registered" -> PIN_TO_COL_20_REGISTERED)
              [] g.chip = "GAL22V10" -> PIN_TO_COL_22V10
              [] g.chip = "GAL20RA10" -> PIN_TO_COL_20RA10
    IN  column_lookup[pin_num]

set_and_column(g, row, column, negation) ==
    IF ~column.ok THEN Ret(g, column.err)
    ELSE Ret([g EXCEPT !.fuses[row * num_cols(g.chip) + column.col
                               + (IF negation THEN 1 ELSE 0) + 1] = FALSE],
             OkCode)

\* Returns the GAL and a Result<(), ErrorCode>.
set_and(g, row, pin_num, negation) ==
    set_and_column(g, row, pin_to_column(g, pin_num), negation)

\* Mutant of clear_rows: the rows are cleared from the start of the block.
clear_rows_from_start(g, bounds) ==
    LET ncols == num_cols(g.chip)
        start == bounds.start_row * ncols
        end == (bounds.start_row + bounds.max_row) * ncols
    IN  [g EXCEPT !.fuses = SubSeq(g.fuses, 1, start)
                                \o [k \in 1 .. end - start |-> FALSE]
                                \o SubSeq(g.fuses, end + 1, Len(g.fuses))]

clear_rows(g, bounds) ==
    LET ncols == num_cols(g.chip)
        start == (bounds.start_row + bounds.row_offset) * ncols
        end == (bounds.start_row + bounds.max_row) * ncols
    IN  [g EXCEPT !.fuses = SubSeq(g.fuses, 1, start)
                                \o [k \in 1 .. end - start |-> FALSE]
                                \o SubSeq(g.fuses, end + 1, Len(g.fuses))]

at_line_ret(line, r) == Ret(r.gal, at_line(line, r.res))

\* The inner loop of add_term: the inputs of one AND-group, from input n on.
RECURSIVE add_inputs(_, _, _, _, _)
add_inputs(g, term, bounds, row, n) ==
    IF n > Len(row) THEN Ret(g, Ok)
    ELSE Try(at_line_ret(term.line_num,
                 set_and(g, bounds.start_row + bounds.row_offset, row[n].pin,
                         row[n].neg # needs_flip(g, row[n].pin))),
             LAMBDA g1 : add_inputs(g1, term, bounds, row, n + 1))

\* The outer loop of add_term: the AND-groups from group k on.
RECURSIVE add_rows(_, _, _, _, _)
add_rows(g, term, bounds, single_row, k) ==
    IF k > Len(term.pins) THEN Ret(clear_rows(g, bounds), Ok)
    ELSE IF bounds.row_offset = bounds.max_row
         THEN Ret(g, at_line(term.line_num,
                    IF single_row THEN Code("MoreThanOneProduct")
                    ELSE ErrCode("TooManyProducts", "", 0, "",
                                 bounds.max_row - 1, Len(term.pins))))
         ELSE Try(add_inputs(g, term, bounds, term.pins[k], 1),
                  LAMBDA g1 : add_rows(g1, term,
                                       [bounds EXCEPT !.row_offset = @ + 1],
                                       single_row, k + 1))

\* Mutant of add_term: a reservation counts as single-row when max_row is 1.
add_term_single_row_by_max(g, term, bounds) ==
    add_rows(g, term, bounds, bounds.max_row = 1, 1)

add_term(g, term, bounds) ==
    add_rows(g, term, bounds, bounds.max_row = bounds.row_offset + 1, 1)

\* Mutant of add_term_opt: an absent term is compiled as the constant true.
add_term_opt_none_is_true(g, term, bounds) ==
    add_term(g, IF is_some(term) THEN term[1] ELSE true_term(0), bounds)

add_term_opt(g, term, bounds) ==
    add_term(g, IF is_some(term) THEN term[1] ELSE false_term(0), bounds)

(***************************************************************************)
(* Blueprint (blueprint.rs, consumed read-only): OLMC and Blueprint        *)
(***************************************************************************)
OLMC(out, act, tri, clk, ar, ap, fb) ==
    [output |-> out, active |-> act, tri_con |-> tri,
     clock |-> clk, arst |-> ar, aprst |-> ap, feedback |-> fb]

Output(m, t) == [mode |-> m, term |-> t]

Blueprint(chip, sg, os, ar, sp) ==
    [chip |-> chip, sig |-> sg, olmcs |-> os, ar |-> ar, sp |-> sp]

is_mode(output, m) == is_some(output) /\ output[1].mode = m

(***************************************************************************)
(* gal_builder.rs: functions that set specific components of the GAL       *)
(***************************************************************************)
Min(a, b) == IF a < b THEN a ELSE b

\* (c << j) & 0x80 != 0 on a u8
sig_bit(c, j) == ((c * (2 ^ j)) % 256) \div 128 = 1

set_sig(g, b) ==
    [g EXCEPT !.sig = [k \in DOMAIN g.sig |->
        IF k \div 8 < Min(Len(b.sig), 8)
        THEN sig_bit(b.sig[(k \div 8) + 1], k % 8)
        ELSE g.sig[k]]]

is_tristate(olmc, com_is_tri) ==
    IF is_none(olmc.output) THEN olmc.feedback
    ELSE CASE olmc.output[1].mode = "Tristate" -> TRUE
           [] olmc.output[1].mode = "Combinatorial" -> com_is_tri
           [] olmc.output[1].mode = "Registered" -> FALSE

\* Mutant of set_tristate: the bit of olmc i is written to ac1[i].
set_tristate_unreversed(g, b, com_is_tri) ==
    [g EXCEPT !.ac1 = [k \in DOMAIN g.ac1 |->
        IF is_tristate(b.olmcs[k + 1], com_is_tri) THEN TRUE
        ELSE g.ac1[k]]]

\* The loop over (olmc, i) writes ac1[num_olmcs - 1 - i]; bit k belongs
\* to olmc i = num_olmcs - 1 - k.
set_tristate(g, b, com_is_tri) ==
    LET n == Len(b.olmcs)
    IN  [g EXCEPT !.ac1 = [k \in DOMAIN g.ac1 |->
            IF is_tristate(b.olmcs[(n - 1 - k) + 1], com_is_tri) THEN TRUE
            ELSE g.ac1[k]]]

set_xors(g, b) ==
    LET n == Len(b.olmcs)
    IN  [g EXCEPT !.xor = [k \in DOMAIN g.xor |->
            IF is_some(b.olmcs[(n - 1 - k) + 1].output)
               /\ b.olmcs[(n - 1 - k) + 1].active = "High"
            THEN TRUE
            ELSE g.xor[k]]]

set_pts(g) == [g EXCEPT !.pt = [k \in DOMAIN g.pt |-> TRUE]]

\* Mutant of adjust_main_bounds: the GALxxV8s never skip the enable row.
adjust_main_bounds_no_skip(g, output, bounds) ==
    CASE g.chip \in {"GAL16V8", "GAL20V8"} -> bounds
      [] g.chip = "GAL22V10" -> [bounds EXCEPT !.row_offset = 1]
      [] g.chip = "GAL20RA10" -> [bounds EXCEPT !.row_offset = 4]

adjust_main_bounds(g, output, bounds) ==
    CASE g.chip \in {"GAL16V8", "GAL20V8"} ->
            IF get_mode(g) = "Simple" \/ is_mode(output, "Registered")
            THEN bounds
            ELSE [bounds EXCEPT !.row_offset = 1]
      [] g.chip = "GAL22V10" -> [bounds EXCEPT !.row_offset = 1]
      [] g.chip = "GAL20RA10" -> [bounds EXCEPT !.row_offset = 4]

\* First control equation in OLMC order, from olmc n (1-based) on.
RECURSIVE check_not_gal20ra10_from(_, _)
check_not_gal20ra10_from(olmcs, n) ==
    IF n > Len(olmcs) THEN Ok
    ELSE LET olmc == olmcs[n]
         IN  IF is_some(olmc.clock)
             THEN at_line(olmc.clock[1].line_num,
                          ErrCode("DisallowedControl", "CLK", 0, "", 0, 0))
             ELSE IF is_some(olmc.arst)
             THEN at_line(olmc.arst[1].line_num,
                          ErrCode("DisallowedControl", "ARST", 0, "", 0, 0))
             ELSE IF is_some(olmc.aprst)
             THEN at_line(olmc.aprst[1].line_num,
                          ErrCode("DisallowedControl", "APRST", 0, "", 0, 0))
             ELSE check_not_gal20ra10_from(olmcs, n + 1)

\* Mutant of check_not_gal20ra10: the first OLMC is not looked at.
check_not_gal20ra10_skip_first(b) == check_not_gal20ra10_from(b.olmcs, 2)

check_not_gal20ra10(b) == check_not_gal20ra10_from(b.olmcs, 1)

\* Mutant of check_tristate: an enable term on a Combinatorial output passes.
check_tristate_allows_combinatorial(chip, olmc) ==
    IF is_none(olmc.output) THEN ErrCode("UndefinedOutput", "E", 0, "", 0, 0)
    ELSE IF olmc.output[1].mode = "Registered" /\ chip \in {"GAL16V8", "GAL20V8"}
    THEN Code("TristateReg")
    ELSE OkCode

check_tristate(chip, olmc) ==
    IF is_none(olmc.output) THEN ErrCode("UndefinedOutput", "E", 0, "", 0, 0)
    ELSE IF olmc.output[1].mode = "Registered" /\ chip \in {"GAL16V8", "GAL20V8"}
    THEN Code("TristateReg")
    ELSE IF olmc.output[1].mode = "Combinatorial" THEN Code("UnmatchedTristate")
    ELSE OkCode

check_aux(field, olmc, suffix) ==
    IF is_some(field)
    THEN at_line(field[1].line_num,
            IF is_none(olmc.output) THEN ErrCode("UndefinedOutput", suffix, 0, "", 0, 0)
            ELSE IF olmc.output[1].mode = "Registered" THEN OkCode
            ELSE ErrCode("InvalidControl", suffix, 0, "", 0, 0))
    ELSE Ok

(***************************************************************************)
(* gal_builder.rs: GALxV8 analysis                                         *)
(***************************************************************************)
\* The loop over feedback-used OLMCs, from olmc n (0-based) on.
RECURSIVE analyse_feedback(_, _)
analyse_feedback(olmcs, n) ==
    IF n >= Len(olmcs) THEN "Simple"
    ELSE IF ~olmcs[n + 1].feedback THEN analyse_feedback(olmcs, n + 1)
    ELSE IF is_none(olmcs[n + 1].output)
         THEN IF n = 3 \/ n = 4 THEN "Complex"
              ELSE analyse_feedback(olmcs, n + 1)
         ELSE "Complex"

\* Mutant of analyse_mode: an OLMC without output never forces Complex mode.
analyse_mode_inputs_always_simple(olmcs) ==
    IF \E n \in 1 .. Len(olmcs) : is_mode(olmcs[n].output, "Registered")
    THEN "Registered"
    ELSE IF \E n \in 1 .. Len(olmcs) : is_mode(olmcs[n].output, "Tristate")
    THEN "Complex"
    ELSE IF \E n \in 1 .. Len(olmcs) : olmcs[n].feedback /\ is_some(olmcs[n].output)
    THEN "Complex"
    ELSE "Simple"

\* Mutant of analyse_mode: Tristate outputs are looked for first.
analyse_mode_tristate_first(olmcs) ==
    IF \E n \in 1 .. Len(olmcs) : is_mode(olmcs[n].output, "Tristate")
    THEN "Complex"
    ELSE IF \E n \in 1 .. Len(olmcs) : is_mode(olmcs[n].output, "Registered")
    THEN "Registered"
    ELSE analyse_feedback(olmcs, 0)

analyse_mode(olmcs) ==
    IF \E n \in 1 .. Len(olmcs) : is_mode(olmcs[n].output, "Registered")
    THEN "Registered"
    ELSE IF \E n \in 1 .. Len(olmcs) : is_mode(olmcs[n].output, "Tristate")
    THEN "Complex"
    ELSE analyse_feedback(olmcs, 0)

(***************************************************************************)
(* gal_builder.rs: one iteration of set_core_eqns, in its two halves       *)
(***************************************************************************)
\* match &olmc.output { Some(..) => add_term(adjusted)?, None => add_term(false)? }
core_main(g, b, n) ==
    add_term(g,
             IF is_some(b.olmcs[n + 1].output) THEN b.olmcs[n + 1].output[1].term
             ELSE false_term(0),
             IF is_some(b.olmcs[n + 1].output)
             THEN adjust_main_bounds(g, b.olmcs[n + 1].output, get_bounds(g.chip, n))
             ELSE get_bounds(g.chip, n))

\* if let Some(term) = &olmc.tri_con { at_line(check_tristate)?; add_term(row 0)? }
core_tri(g, b, n) ==
    Try(Ret(g, at_line(b.olmcs[n + 1].tri_con[1].line_num,
                       check_tristate(g.chip, b.olmcs[n + 1]))),
        LAMBDA g1 : add_term(g1, b.olmcs[n + 1].tri_con[1],
                             [get_bounds(g.chip, n) EXCEPT !.row_offset = 0,
                                                           !.max_row = 1]))

set_arsp_eqns(g, b) ==
    Try(add_term_opt(g, b.ar, Bounds(0, 1, 0)),
        LAMBDA g1 : add_term_opt(g1, b.sp, Bounds(131, 1, 0)))

\* Mutant of aux_registered: a missing clock is not diagnosed.
aux_registered_no_clock_check(g, olmc, bounds) ==
    Try(add_term_opt(g, olmc.arst, [bounds EXCEPT !.row_offset = 2, !.max_row = 3]),
        LAMBDA g1 :
        add_term_opt(g1, olmc.aprst, [bounds EXCEPT !.row_offset = 3, !.max_row = 4]))

\* The body of `if let Some((PinMode::Registered, ref term)) = olmc.output`.
aux_registered(g, olmc, bounds) ==
    Try(add_term_opt(g, olmc.arst, [bounds EXCEPT !.row_offset = 2, !.max_row = 3]),
        LAMBDA g1 :
    Try(add_term_opt(g1, olmc.aprst, [bounds EXCEPT !.row_offset = 3, !.max_row = 4]),
        LAMBDA g2 :
    IF is_none(olmc.clock)
    THEN Ret(g2, at_line(olmc.output[1].term.line_num, Code("NoCLK")))
    ELSE Ret(g2, Ok)))

\* One iteration of the loop of set_aux_eqns.
set_aux_eqns_olmc(g, b, n) ==
    LET olmc == b.olmcs[n + 1]
        bounds == get_bounds(g.chip, n)
    IN  Try(Ret(g, check_aux(olmc.clock, olmc, "CLK")), LAMBDA g1 :
        Try(Ret(g1, check_aux(olmc.arst, olmc, "ARST")), LAMBDA g2 :
        Try(Ret(g2, check_aux(olmc.aprst, olmc, "APRST")), LAMBDA g3 :
        Try(IF is_mode(olmc.output, "Registered")
            THEN aux_registered(g3, olmc, bounds)
            ELSE Ret(g3, Ok), LAMBDA g4 :
        IF is_some(olmc.output)
        THEN add_term_opt(g4, olmc.clock,
                          [bounds EXCEPT !.row_offset = 1, !.max_row = 2])
        ELSE Ret(g4, Ok)))))

(***************************************************************************)
(* The designs explored.  One OLMC (the special one, at position s) has a  *)
(* configuration of its own among OLMCs that share a background            *)
(* configuration.  Every term of a design reads the same pin, the term of  *)
(* field k of OLMC n carries line LineOf(n, k), and, as the parser does,   *)
(* the feedback flag of an OLMC is set when some term reads its pin.       *)
(***************************************************************************)
BigGroups == 9

CtlGroups == 2

LineOf(n, k) == 10 * n + k

\* g AND-groups, each the single (possibly negated) pin p
Sum(line, g, p, neg) == Term(line, [r \in 1 .. g |-> <<Pin(p, neg)>>])

OptSum(line, g, p, neg) == IF g < 0 THEN None ELSE Some(Sum(line, g, p, neg))

\* cfg: kind, active, and the number of AND-groups of the main,
\* tristate, clock, arst and aprst terms (-1: no such term)
Cfg(kind, active, main, tri, clk, ar, ap) ==
    [kind |-> kind, active |-> active, main |-> main,
     tri |-> tri, clk |-> clk, ar |-> ar, ap |-> ap]

MkOlmc(n, cfg, p, neg) ==
    OLMC(IF cfg.kind = "None" THEN None
         ELSE Some(Output(cfg.kind, Sum(LineOf(n, 1), cfg.main, p, neg))),
         cfg.active,
         OptSum(LineOf(n, 2), cfg.tri, p, neg),
         OptSum(LineOf(n, 3), cfg.clk, p, neg),
         OptSum(LineOf(n, 4), cfg.ar, p, neg),
         OptSum(LineOf(n, 5), cfg.ap, p, neg),
         FALSE)

Uses(term, p) ==
    \E r \in 1 .. Len(term.pins) : \E k \in 1 .. Len(term.pins[r]) :
        term.pins[r][k].pin = p

OptUses(o, p) == is_some(o) /\ Uses(o[1], p)

OlmcUses(olmc, p) ==
    \/ is_some(olmc.output) /\ Uses(olmc.output[1].term, p)
    \/ OptUses(olmc.tri_con, p)
    \/ OptUses(olmc.clock, p)
    \/ OptUses(olmc.arst, p)
    \/ OptUses(olmc.aprst, p)

WithFeedback(b) ==
    [b EXCEPT !.olmcs = [n \in DOMAIN b.olmcs |->
        [b.olmcs[n] EXCEPT !.feedback =
            \/ \E m \in DOMAIN b.olmcs : OlmcUses(b.olmcs[m], min_olmc_pin(b.chip) + n - 1)
            \/ OptUses(b.ar, min_olmc_pin(b.chip) + n - 1)
            \/ OptUses(b.sp, min_olmc_pin(b.chip) + n - 1)]]]

PinOf(chip, s, which) ==
    CASE which = "input" -> 2
      [] which = "pin1" -> 1
      [] which = "gnd" -> num_pins(chip) \div 2
      [] which = "special" -> min_olmc_pin(chip) + s
      [] which = "olmc1" -> min_olmc_pin(chip) + 1
      [] which = "olmc3" -> min_olmc_pin(chip) + 3

\* d: chip, s, sc, bc, which, neg, sig, ar, sp (ar, sp: groups, -1 for none)
MkBlueprint(d) ==
    LET p == PinOf(d.chip, d.s, d.which)
    IN  WithFeedback(Blueprint(d.chip, d.sig,
            [n \in 1 .. num_olmcs(d.chip) |->
                MkOlmc(n - 1, IF n - 1 = d.s THEN d.sc ELSE d.bc, p, d.neg)],
            OptSum(101, d.ar, p, d.neg), OptSum(102, d.sp, p, d.neg)))

Design(chip, s, sc, bc, which, neg, sg, ar, sp) ==
    [chip |-> chip, s |-> s, sc |-> sc, bc |-> bc, which |-> which, neg |-> neg,
     sig |-> sg, ar |-> ar, sp |-> sp]

Kinds == {"None", "Combinatorial", "Tristate", "Registered"}

Actives == {"High", "Low"}

SpecialPos == {0, 4}

Plain(k, a) == Cfg(k, a, 1, -1, -1, -1, -1)

BgCfgs == {Plain(k, "Low") : k \in Kinds} \cup {Cfg("Registered", "High", 1, -1, 1, -1, -1)}

Refs ==
    {<<"input", FALSE>>, <<"pin1", FALSE>>, <<"gnd", TRUE>>}
    \cup ({"special", "olmc1", "olmc3"} \X BOOLEAN)

\* every output kind and polarity, every kind of pin read
KindDesigns ==
    {Design(chip, s, Plain(k, a), bc, ref[1], ref[2], <<>>, -1, -1) :
        chip \in Chips, s \in SpecialPos, k \in Kinds, a \in Actives,
        bc \in BgCfgs, ref \in Refs}

\* control equations on the devices that have no such lines
DisallowedDesigns ==
    {Design(chip, s, Cfg(k, "Low", 1, tri, clk, ar, ap), bc, "input", FALSE, <<>>, -1, -1) :
        chip \in Chips \ {"GAL20RA10"}, s \in SpecialPos,
        k \in {"None", "Combinatorial", "Registered"}, tri \in {-1, 1},
        clk \in {-1, 1}, ar \in {-1, 1}, ap \in {-1, 1},
        bc \in {Plain("Combinatorial", "Low"), Cfg("Registered", "High", 1, -1, 1, -1, -1)}}

\* GAL20RA10: clock, arst and aprst equations
AuxDesigns ==
    {Design("GAL20RA10", s, Cfg(k, "Low", 1, tri, clk, ar, ap), bc, "input", FALSE, <<>>, -1, -1) :
        s \in SpecialPos, k \in Kinds, tri \in {-1, 1},
        clk \in {-1, 1}, ar \in {-1, 1, CtlGroups}, ap \in {-1, 1},
        bc \in BgCfgs \ {Plain("Tristate", "Low")}}

\* tristate enable equations, terms with too many products
TristateDesigns ==
    {Design(chip, s, Cfg(k, "Low", main, tri, -1, -1, -1), bc, "input", FALSE, <<>>, -1, -1) :
        chip \in Chips, s \in SpecialPos, k \in Kinds, main \in {1, BigGroups},
        tri \in {-1, 1, CtlGroups}, bc \in BgCfgs}

\* GAL22V10: enable, AR and SP terms that read OLMC pins
ArspDesigns ==
    {Design("GAL22V10", s, Cfg(k, a, 1, tri, -1, -1, -1), bc, w, neg, <<>>, ar, sp) :
        s \in SpecialPos, k \in {"Tristate", "Registered"}, a \in Actives,
        tri \in {-1, 1}, bc \in {Plain("Combinatorial", "Low"), Plain("Registered", "High")},
        w \in {"special", "olmc1"}, neg \in BOOLEAN,
        ar \in {-1, 1, CtlGroups}, sp \in {-1, 1}}

SigDesigns ==
    {Design(chip, 0, Plain("Combinatorial", "Low"), Plain("Combinatorial", "Low"),
            "input", FALSE, sg, -1, -1) :
        chip \in Chips,
        sg \in {<<65>>, <<255, 0, 129>>, <<1, 2, 4, 8, 16, 32, 64, 128, 255>>}}

Blueprints ==
    {MkBlueprint(d) : d \in KindDesigns \cup DisallowedDesigns \cup AuxDesigns \cup TristateDesigns
                          \cup ArspDesigns \cup SigDesigns}

(***************************************************************************)
(* build(): the three device-specific sequences of calls, one action per   *)
(* call (set_core_eqns and set_aux_eqns: one action per loop iteration).   *)
(***************************************************************************)
\* Mutant of build_galxv8: the polarity bits are set after the equations.
build_galxv8_xors_late ==
    <<"check_not_gal20ra10", "set_sig", "set_mode", "set_tristate",
      "set_core_eqns", "set_xors", "set_pts">>

build_galxv8 ==
    <<"check_not_gal20ra10", "set_sig", "set_mode", "set_tristate", "set_xors",
      "set_core_eqns", "set_pts">>

build_gal22v10 ==
    <<"check_not_gal20ra10", "set_sig", "set_tristate", "set_xors",
      "set_core_eqns", "set_arsp_eqns">>

build_gal20ra10 == <<"set_sig", "set_xors", "set_core_eqns", "set_aux_eqns">>

build(chip) ==
    CASE chip \in {"GAL16V8", "GAL20V8"} -> build_galxv8
      [] chip = "GAL22V10" -> build_gal22v10
      [] chip = "GAL20RA10" -> build_gal20ra10

FirstStep(chip) == build(chip)[1]

\* The call that follows `stage`, "done" (Ok(gal)) after the last one.
StageAfter(chip, stage) ==
    LET k == CHOOSE k \in 1 .. Len(build(chip)) : build(chip)[k] = stage
    IN  IF k = Len(build(chip)) THEN "done" ELSE build(chip)[k + 1]

Init ==
    /\ bp \in Blueprints
    /\ gal = GAL_new(bp.chip)
    /\ pc = FirstStep(bp.chip)
    /\ i = 0
    /\ result = Pending
    /\ call = <<>>
    /\ mode = "unset"

Fail(err) ==
    /\ pc' = "failed"
    /\ result' = err
    /\ UNCHANGED <<bp, i, call, mode>>

Goto(stage) ==
    /\ pc' = stage
    /\ result' = IF stage = "done" THEN Ok ELSE result
    /\ UNCHANGED <<bp, i, call, mode>>

\* Next iteration of a loop over the OLMCs, or the call after the loop.
NextOlmc(loop, stage) ==
    /\ UNCHANGED <<bp, call, mode>>
    /\ IF i + 1 < Len(bp.olmcs)
       THEN pc' = loop /\ i' = i + 1 /\ result' = result
       ELSE /\ pc' = StageAfter(bp.chip, stage)
            /\ i' = 0
            /\ result' = IF StageAfter(bp.chip, stage) = "done" THEN Ok ELSE result

\* `f(..)?` at a call site: return the error, or go on.
Step(r, Go) ==
    /\ gal' = r.gal
    /\ IF is_err(r.res) THEN Fail(r.res) ELSE Go

CheckNotGal20ra10 ==
    /\ pc = "check_not_gal20ra10"
    /\ Step(Ret(gal, check_not_gal20ra10(bp)), Goto(StageAfter(bp.chip, pc)))

SetSig ==
    /\ pc = "set_sig"
    /\ gal' = set_sig(gal, bp)
    /\ Goto(StageAfter(bp.chip, pc))

SetMode ==
    /\ pc = "set_mode"
    /\ gal' = set_mode(gal, analyse_mode(bp.olmcs))
    /\ Goto(StageAfter(bp.chip, pc))

\* com_is_tri: get_mode() != Simple on the GALxxV8s, true on the GAL22V10
SetTristate ==
    /\ pc = "set_tristate"
    /\ gal' = set_tristate(gal, bp,
                 IF bp.chip = "GAL22V10" THEN TRUE ELSE get_mode(gal) # "Simple")
    /\ Goto(StageAfter(bp.chip, pc))

SetXors ==
    /\ pc = "set_xors"
    /\ gal' = set_xors(gal, bp)
    /\ Goto(StageAfter(bp.chip, pc))

CoreMain ==
    /\ pc = "set_core_eqns"
    /\ Step(core_main(gal, bp, i),
            IF is_some(bp.olmcs[i + 1].tri_con) THEN Goto("set_core_eqns_tri")
            ELSE NextOlmc("set_core_eqns", "set_core_eqns"))

CoreTri ==
    /\ pc = "set_core_eqns_tri"
    /\ Step(core_tri(gal, bp, i), NextOlmc("set_core_eqns", "set_core_eqns"))

SetPts ==
    /\ pc = "set_pts"
    /\ gal' = set_pts(gal)
    /\ Goto(StageAfter(bp.chip, pc))

SetArspEqns ==
    /\ pc = "set_arsp_eqns"
    /\ Step(set_arsp_eqns(gal, bp), Goto(StageAfter(bp.chip, pc)))

SetAuxEqns ==
    /\ pc = "set_aux_eqns"
    /\ Step(set_aux_eqns_olmc(gal, bp, i), NextOlmc("set_aux_eqns", "set_aux_eqns"))

Next ==
    \/ CheckNotGal20ra10
    \/ SetSig
    \/ SetMode
    \/ SetTristate
    \/ SetXors
    \/ CoreMain
    \/ CoreTri
    \/ SetPts
    \/ SetArspEqns
    \/ SetAuxEqns

Spec == Init /\ [][Next]_vars

(***************************************************************************)
(* analyse_mode on its own: the function applied to sequences of 8 OLMCs,  *)
(* each with any output kind and any feedback flag.  Up to MaxSpecial      *)
(* OLMCs deviate from a configuration shared by the others.  No GAL is in  *)
(* scope of the function.                                                  *)
(***************************************************************************)
MaxSpecial == 2

\* <<kind, feedback>>
ModeCfgs == Kinds \X BOOLEAN

MkModeOlmc(n, c) == [MkOlmc(n, Plain(c[1], "Low"), 2, FALSE) EXCEPT !.feedback = c[2]]

ModeInputs ==
    {[n \in 1 .. 8 |-> MkModeOlmc(n - 1, IF n - 1 \in DOMAIN f THEN f[n - 1] ELSE bg)] :
        bg \in ModeCfgs,
        f \in UNION {[S -> ModeCfgs] : S \in {T \in SUBSET (0 .. 7) : Cardinality(T) <= MaxSpecial}}}

InitMode ==
    /\ bp \in {Blueprint("GAL16V8", <<>>, olmcs, None, None) : olmcs \in ModeInputs}
    /\ pc = "analyse_mode"
    /\ mode = "unset"
    /\ gal = <<>>
    /\ i = 0
    /\ result = Pending
    /\ call = <<>>

AnalyseMode ==
    /\ pc = "analyse_mode"
    /\ mode' = analyse_mode(bp.olmcs)
    /\ pc' = "analysed"
    /\ UNCHANGED <<bp, gal, i, result, call>>

NextMode == AnalyseMode

SpecMode == InitMode /\ [][NextMode]_vars

(***************************************************************************)
(* add_term and add_term_opt on their own: up to MaxCalls calls in a row   *)
(* on the fuse state as build_* hands it to set_core_eqns, call number n   *)
(* into a reservation of OLMC n that the builder uses for the device and   *)
(* mode.  A call that fails ends the build.                                *)
(***************************************************************************)
MaxCalls == 3

\* build_*: the calls ahead of set_core_eqns
Prepared(b) ==
    CASE b.chip \in {"GAL16V8", "GAL20V8"} ->
            LET g1 == set_mode(set_sig(GAL_new(b.chip), b), analyse_mode(b.olmcs))
            IN  set_xors(set_tristate(g1, b, get_mode(g1) # "Simple"), b)
      [] b.chip = "GAL22V10" ->
            set_xors(set_tristate(set_sig(GAL_new(b.chip), b), b, TRUE), b)
      [] b.chip = "GAL20RA10" ->
            set_xors(set_sig(GAL_new(b.chip), b), b)

\* OLMC 0 Registered or Combinatorial and active high, the other outputs
\* Combinatorial; the equations read the pin of OLMC 0 or an input pin.
TermDesigns ==
    {Design(chip, 0, Plain(kw[1], "High"), Plain("Combinatorial", "Low"),
            kw[2], FALSE, <<>>, -1, -1) :
        chip \in Chips,
        kw \in {<<"Registered", "special">>, <<"Combinatorial", "special">>,
                <<"Combinatorial", "input">>}}

\* <<row_offset, max_row>> of the reservations add_term is called with: main
\* equation, tristate enable, and (GAL20RA10) a control equation.
RowPairs(g, bounds) ==
    CASE g.chip \in {"GAL16V8", "GAL20V8"} ->
            (CASE get_mode(g) = "Simple" -> {<<0, 8>>}
               [] get_mode(g) = "Complex" -> {<<1, 8>>, <<0, 1>>}
               [] get_mode(g) = "Registered" -> {<<0, 8>>, <<1, 8>>, <<0, 1>>})
      [] g.chip = "GAL22V10" -> {<<1, bounds.max_row>>, <<0, 1>>}
      [] g.chip = "GAL20RA10" -> {<<4, 8>>, <<2, 3>>, <<0, 1>>}

TermBounds(g, n) ==
    {[get_bounds(g.chip, n) EXCEPT !.row_offset = rp[1], !.max_row = rp[2]] :
        rp \in RowPairs(g, get_bounds(g.chip, n))}

\* A term of n AND-groups.  Style 1 reads input pin 2, negated in every
\* other group; style 2 reads input pin 3 and the pin of OLMC 0, the latter
\* negated in every other group.
TermOf(line, n, style, chip) ==
    Term(line, [r \in 1 .. n |->
        IF style = 1 THEN <<Pin(2, r % 2 = 0)>>
        ELSE <<Pin(3, FALSE), Pin(min_olmc_pin(chip), r % 2 = 1)>>])

\* Terms with no AND-group, as many as the reservation has rows, one more.
TermsFor(chip, bounds) ==
    {TermOf(7, n, style, chip) :
        n \in {0, bounds.max_row - bounds.row_offset, bounds.max_row - bounds.row_offset + 1},
        style \in {1, 2}}

InitTerm ==
    /\ bp \in {MkBlueprint(d) : d \in TermDesigns}
    /\ gal = Prepared(bp)
    /\ pc = "add_term"
    /\ i = 0
    /\ result = Pending
    /\ call = <<>>
    /\ mode = "unset"

\* The call op(term, bounds) returned r.
Called(op, term, bounds, r) ==
    /\ gal' = r.gal
    /\ result' = r.res
    /\ call' = [op |-> op, term |-> term, bounds |-> bounds]
    /\ i' = i + 1
    /\ pc' = IF is_err(r.res) THEN "failed" ELSE "add_term"
    /\ UNCHANGED <<bp, mode>>

\* The block call number n writes: that of OLMC n, but the second call
\* writes the block of OLMC 0 once more.
BlockOf(n) == IF n = 1 THEN 0 ELSE n

AddTerm ==
    /\ pc = "add_term" /\ i < MaxCalls
    /\ \E bounds \in TermBounds(gal, BlockOf(i)) :
       \E term \in TermsFor(bp.chip, bounds) :
          Called("add_term", Some(term), bounds, add_term(gal, term, bounds))

AddTermOpt ==
    /\ pc = "add_term" /\ i < MaxCalls
    /\ \E bounds \in TermBounds(gal, i) :
       \E term \in {None, Some(TermOf(7, bounds.max_row - bounds.row_offset, 1, bp.chip))} :
          Called("add_term_opt", term, bounds, add_term_opt(gal, term, bounds))

NextTerm == AddTerm \/ AddTermOpt

SpecTerm == InitTerm /\ [][NextTerm]_vars

(***************************************************************************)
(* Properties                                                              *)
(***************************************************************************)
\* The main array of each device with every fuse intact.
Intact == [c \in Chips |-> [k \in 1 .. logic_size(c) |-> TRUE]]

AllBits(f, v) == \A k \in DOMAIN f : f[k] = v

\* The state right after GAL::new, before the first call of build_*.
Fresh == pc = FirstStep(bp.chip) /\ result = Pending

\* C6 as stated: a newly created Fuse State has every bit of the main
\* array, of xor, of sig, of ac1 and of pt intact (true), and both mode
\* bits false.
C6_AllIntact ==
    Fresh =>
        /\ gal.fuses = Intact[bp.chip]
        /\ AllBits(gal.xor, TRUE) /\ AllBits(gal.sig, TRUE)
        /\ AllBits(gal.ac1, TRUE) /\ AllBits(gal.pt, TRUE)
        /\ ~gal.syn /\ ~gal.ac0

\* C6 as amended: a newly created Fuse State has every bit of the main
\* array intact (true), every bit of xor, sig, ac1 and pt false, and both
\* mode bits false; xor and ac1 hold one bit per OLMC, sig and pt 64 bits.
C6_NewFuseState ==
    Fresh =>
        /\ gal.fuses = Intact[bp.chip]
        /\ DOMAIN gal.xor = 0 .. num_olmcs(bp.chip) - 1 /\ AllBits(gal.xor, FALSE)
        /\ DOMAIN gal.ac1 = 0 .. num_olmcs(bp.chip) - 1 /\ AllBits(gal.ac1, FALSE)
        /\ DOMAIN gal.sig = 0 .. 63 /\ AllBits(gal.sig, FALSE)
        /\ DOMAIN gal.pt = 0 .. 63 /\ AllBits(gal.pt, FALSE)
        /\ ~gal.syn /\ ~gal.ac0

C6_Witness ==
    /\ Fresh
    /\ bp.chip = "GAL22V10"
    /\ Len(gal.fuses) = 132 * 44
    /\ ~gal.xor[0] /\ ~gal.ac1[9] /\ ~gal.sig[63] /\ ~gal.pt[0]

(***************************************************************************)
(* Vocabulary of the properties of a build                                 *)
(***************************************************************************)
FamilyA == bp.chip \in {"GAL16V8", "GAL20V8"}

FamilyB == bp.chip = "GAL22V10"

FamilyC == bp.chip = "GAL20RA10"

Olmcs == 1 .. Len(bp.olmcs)

\* Nothing has been written to the fuse state since GAL::new.
Pristine(g) ==
    /\ g.fuses = Intact[g.chip]
    /\ AllBits(g.xor, FALSE) /\ AllBits(g.ac1, FALSE)
    /\ AllBits(g.sig, FALSE) /\ AllBits(g.pt, FALSE)
    /\ ~g.syn /\ ~g.ac0

\* The first OLMC (1-based) that satisfies P.
FirstOlmc(P(_)) ==
    CHOOSE n \in Olmcs : P(bp.olmcs[n]) /\ \A m \in 1 .. n - 1 : ~P(bp.olmcs[m])

Failed(code) == pc = "failed" /\ result.kind = "err" /\ result.code = code

HasControl(olmc) == is_some(olmc.clock) \/ is_some(olmc.arst) \/ is_some(olmc.aprst)

\* Kind and line of the first control equation of an OLMC that has one.
ControlOf(olmc) ==
    IF is_some(olmc.clock) THEN <<"CLK", olmc.clock[1].line_num>>
    ELSE IF is_some(olmc.arst) THEN <<"ARST", olmc.arst[1].line_num>>
    ELSE <<"APRST", olmc.aprst[1].line_num>>

\* C9: in a Family A or Family B build of a design in which some OLMC
\* carries a clock, async-reset or async-preset equation, the build is
\* either still before its first step or has failed with DisallowedControl
\* for the kind and line of the first such equation (OLMC order; clock
\* before async-reset before async-preset within an OLMC), and no
\* signature, mode, tristate, polarity, product-term or main-array bit has
\* been written.
C9_DisallowedControlFirst ==
    (~FamilyC /\ \E n \in Olmcs : HasControl(bp.olmcs[n])) =>
        /\ Pristine(gal)
        /\ \/ pc = "check_not_gal20ra10" /\ result = Pending
           \/ /\ Failed("DisallowedControl")
              /\ result.suffix = ControlOf(bp.olmcs[FirstOlmc(HasControl)])[1]
              /\ result.line = ControlOf(bp.olmcs[FirstOlmc(HasControl)])[2]

\* A GAL22V10 build rejected for the async-reset equation of OLMC 4, which
\* has an async-preset equation too and no clock equation.
C9_Witness ==
    /\ FamilyB /\ Failed("DisallowedControl")
    /\ result.suffix = "ARST" /\ result.line = LineOf(4, 4)
    /\ is_none(bp.olmcs[5].clock) /\ is_some(bp.olmcs[5].aprst)
    /\ \A n \in 1 .. 4 : ~HasControl(bp.olmcs[n])
    /\ Pristine(gal)

\* The Mode of a design, by the decision list: Registered if any output is
\* Registered; else Complex if any is Tristate; else Complex if some
\* feedback-used OLMC has no output and sits at index 3 or 4 (0-based) or
\* has an output; else Simple.
ModeOf(olmcs) ==
    IF \E n \in 1 .. Len(olmcs) : is_mode(olmcs[n].output, "Registered")
    THEN "Registered"
    ELSE IF \E n \in 1 .. Len(olmcs) : is_mode(olmcs[n].output, "Tristate")
    THEN "Complex"
    ELSE IF \E n \in 1 .. Len(olmcs) :
                /\ olmcs[n].feedback
                /\ \/ is_none(olmcs[n].output) /\ n - 1 \in {3, 4}
                   \/ is_some(olmcs[n].output)
    THEN "Complex"
    ELSE "Simple"

\* The mode bits <<syn, ac0>> that encode a Mode.
ModeBits(m) ==
    CASE m = "Simple" -> <<TRUE, FALSE>>
      [] m = "Complex" -> <<TRUE, TRUE>>
      [] m = "Registered" -> <<FALSE, TRUE>>

\* The tristate-enable bit an OLMC is to get.
ExpTristate(olmc, com_is_tri) ==
    \/ is_none(olmc.output) /\ olmc.feedback
    \/ is_mode(olmc.output, "Tristate")
    \/ is_mode(olmc.output, "Combinatorial") /\ com_is_tri

\* The final ac1 and xor vectors of a Family A or B build: the bit of
\* OLMC n (0-based) is bit num_olmcs - 1 - n.
ExpAc1 ==
    [k \in 0 .. Len(bp.olmcs) - 1 |->
        ExpTristate(bp.olmcs[Len(bp.olmcs) - k],
                    IF FamilyB THEN TRUE ELSE ModeOf(bp.olmcs) # "Simple")]

ExpXor ==
    [k \in 0 .. Len(bp.olmcs) - 1 |->
        /\ is_some(bp.olmcs[Len(bp.olmcs) - k].output)
        /\ bp.olmcs[Len(bp.olmcs) - k].active = "High"]

ModeFinal(g) == FamilyA => <<g.syn, g.ac0>> = ModeBits(ModeOf(bp.olmcs))

Settled(g) == ModeFinal(g) /\ g.ac1 = ExpAc1 /\ g.xor = ExpXor

\* One step of a Family A or B build, as C10 allows it.
C10_Step ==
    ~FamilyC =>
        \* a step that compiles into the main array finds mode, ac1 and xor final
        /\ gal'.fuses # gal.fuses => Settled(gal)
        \* once final, no step modifies them
        /\ Settled(gal) => Settled(gal')
        \* mode is written before tristate, polarity and the main array
        /\ <<gal'.syn, gal'.ac0>> # <<gal.syn, gal.ac0>> =>
              /\ AllBits(gal.ac1, FALSE) /\ AllBits(gal.xor, FALSE)
              /\ gal.fuses = Intact[bp.chip] /\ gal'.fuses = Intact[bp.chip]
              /\ ModeFinal(gal')
        \* tristate is written after mode, before polarity and the main array
        /\ gal'.ac1 # gal.ac1 =>
              /\ ModeFinal(gal) /\ AllBits(gal.xor, FALSE)
              /\ gal.fuses = Intact[bp.chip] /\ gal'.fuses = Intact[bp.chip]
              /\ gal'.ac1 = ExpAc1
        \* polarity is written after tristate, before the main array
        /\ gal'.xor # gal.xor =>
              /\ ModeFinal(gal) /\ gal.ac1 = ExpAc1
              /\ gal.fuses = Intact[bp.chip] /\ gal'.fuses = Intact[bp.chip]
              /\ gal'.xor = ExpXor

\* C10: in every Family A and Family B build the mode bits (Family A),
\* the ac1 bits and the xor bits hold their final values before the first
\* term is compiled into the main array, no later step modifies them, and
\* they are written in the order mode, tristate, polarity, main equations.
C10_FieldOrder == [][C10_Step]_vars

\* A GAL16V8 build in Registered mode that has compiled the equations of
\* its first OLMC, with tristate and polarity bits set.
C10_Witness ==
    /\ bp.chip = "GAL16V8" /\ pc = "set_core_eqns" /\ i = 1
    /\ gal.fuses # Intact[bp.chip]
    /\ ~gal.syn /\ gal.ac0
    /\ gal.ac1[7] /\ ~gal.ac1[3] /\ gal.xor[3] /\ ~gal.xor[7]
    /\ Settled(gal)

\* C3: after a successful Family A build the tristate-enable bit of OLMC n,
\* stored at ac1[7 - n], is true exactly when the OLMC has no output but
\* feedback used, or its output is Tristate, or its output is Combinatorial
\* and the Mode in the mode bits is not Simple; it is false for a Registered
\* output.  Eight Combinatorial outputs without feedback give Simple and no
\* bit set; one Registered and seven Combinatorial outputs give Registered
\* and the seven bits set.
C3_TristateBits ==
    (FamilyA /\ pc = "done") =>
        /\ \A n \in 0 .. 7 :
              gal.ac1[7 - n] = ExpTristate(bp.olmcs[n + 1], ~(gal.syn /\ ~gal.ac0))
        /\ \A n \in 0 .. 7 :
              is_mode(bp.olmcs[n + 1].output, "Registered") => ~gal.ac1[7 - n]
        /\ (\A n \in 0 .. 7 : /\ is_mode(bp.olmcs[n + 1].output, "Combinatorial")
                              /\ ~bp.olmcs[n + 1].feedback)
              => gal.syn /\ ~gal.ac0 /\ AllBits(gal.ac1, FALSE)
        /\ (/\ Cardinality({n \in 0 .. 7 : is_mode(bp.olmcs[n + 1].output, "Registered")}) = 1
            /\ Cardinality({n \in 0 .. 7 : is_mode(bp.olmcs[n + 1].output, "Combinatorial")}) = 7)
              => /\ ~gal.syn /\ gal.ac0
                 /\ \A n \in 0 .. 7 :
                       gal.ac1[7 - n] = is_mode(bp.olmcs[n + 1].output, "Combinatorial")

\* A successful GAL20V8 build of one Registered output (OLMC 0) and seven
\* Combinatorial outputs.
C3_Witness ==
    /\ bp.chip = "GAL20V8" /\ pc = "done" /\ result = Ok
    /\ is_mode(bp.olmcs[1].output, "Registered")
    /\ \A n \in 2 .. 8 : is_mode(bp.olmcs[n].output, "Combinatorial")
    /\ ~gal.syn /\ gal.ac0
    /\ ~gal.ac1[7] /\ \A k \in 0 .. 6 : gal.ac1[k]

\* flip, as C2 states it: the device is the GAL22V10 and the pin is that of
\* an OLMC whose output is Registered and active high.
ExpFlip(p) ==
    /\ FamilyB
    /\ \E n \in Olmcs :
          /\ p = min_olmc_pin(bp.chip) + n - 1
          /\ is_mode(bp.olmcs[n].output, "Registered")
          /\ bp.olmcs[n].active = "High"

\* The fuse of the main array at (row, col); TRUE is intact.
FuseAt(g, row, col) == g.fuses[row * num_cols(g.chip) + col + 1]

\* AND-group r of the term sits in row first_row + r - 1; of the two
\* columns of each pin it reads, the one for (neg XOR flip) is blown and
\* the other one is intact unless the group reads the opposite literal too.
TermBlown(g, term, first_row) ==
    \A r \in 1 .. Len(term.pins) : \A k \in 1 .. Len(term.pins[r]) :
        LET p == term.pins[r][k]
            col == pin_to_column(g, p.pin).col
            pol == IF p.neg # ExpFlip(p.pin) THEN 1 ELSE 0
        IN  /\ ~FuseAt(g, first_row + r - 1, col + pol)
            /\ (\A m \in 1 .. Len(term.pins[r]) :
                    term.pins[r][m].pin = p.pin => term.pins[r][m].neg = p.neg)
                => FuseAt(g, first_row + r - 1, col + 1 - pol)

\* The terms a successful build has compiled, each with its first row.
CompiledAt ==
    {<<bp.olmcs[n].output[1].term,
       get_bounds(bp.chip, n - 1).start_row
         + adjust_main_bounds(gal, bp.olmcs[n].output, get_bounds(bp.chip, n - 1)).row_offset>> :
        n \in {m \in Olmcs : is_some(bp.olmcs[m].output)}}
    \cup {<<bp.olmcs[n].tri_con[1], get_bounds(bp.chip, n - 1).start_row>> :
        n \in {m \in Olmcs : is_some(bp.olmcs[m].tri_con)}}
    \cup (IF FamilyB /\ is_some(bp.ar) THEN {<<bp.ar[1], 0>>} ELSE {})
    \cup (IF FamilyB /\ is_some(bp.sp) THEN {<<bp.sp[1], 131>>} ELSE {})
    \cup {<<bp.olmcs[n].clock[1], get_bounds(bp.chip, n - 1).start_row + 1>> :
        n \in {m \in Olmcs : FamilyC /\ is_some(bp.olmcs[m].clock)}}
    \cup {<<bp.olmcs[n].arst[1], get_bounds(bp.chip, n - 1).start_row + 2>> :
        n \in {m \in Olmcs : FamilyC /\ is_some(bp.olmcs[m].arst)}}
    \cup {<<bp.olmcs[n].aprst[1], get_bounds(bp.chip, n - 1).start_row + 3>> :
        n \in {m \in Olmcs : FamilyC /\ is_some(bp.olmcs[m].aprst)}}

\* C2: whenever a term is about to be compiled, needs_flip is true of a pin
\* exactly when the device is the GAL22V10 and the pin belongs to an OLMC
\* whose output is Registered and active high (so it is false on the
\* GAL16V8, GAL20V8 and GAL20RA10, for non-OLMC pins and for Combinatorial,
\* Tristate, active-low and output-less OLMCs); and for every pin of every
\* term a successful build has compiled, the column blown is the one for
\* (pin.neg XOR flip).
C2_PolarityColumn ==
    /\ pc \in {"set_core_eqns", "set_core_eqns_tri", "set_arsp_eqns", "set_aux_eqns", "done"} =>
          \A p \in 1 .. num_pins(bp.chip) : needs_flip(gal, p) = ExpFlip(p)
    /\ pc = "done" => \A c \in CompiledAt : TermBlown(gal, c[1], c[2])

\* A successful GAL22V10 build whose OLMC 0 (pin 14) is Registered and
\* active high and reads its own pin un-negated: the negated column of
\* pin 14 is the one blown in the first row of its main equation.
C2_Witness ==
    /\ FamilyB /\ pc = "done"
    /\ is_mode(bp.olmcs[1].output, "Registered") /\ bp.olmcs[1].active = "High"
    /\ bp.olmcs[1].output[1].term.pins[1] = <<Pin(14, FALSE)>>
    /\ needs_flip(gal, 14)
    /\ ~FuseAt(gal, 123, 39) /\ FuseAt(gal, 123, 38)

\* The build has returned, with Ok or with a diagnostic.
Returned == pc \in {"done", "failed"}

RegNoClk(olmc) == is_mode(olmc.output, "Registered") /\ is_none(olmc.clock)

\* An optional control term that compiles into its single row: absent, or
\* at most one AND-group all of whose pins have a column.
FitsOneRow(g, o) ==
    is_none(o) \/ (/\ Len(o[1].pins) <= 1
                   /\ \A r \in 1 .. Len(o[1].pins) : \A k \in 1 .. Len(o[1].pins[r]) :
                         pin_to_column(g, o[1].pins[r][k].pin).ok)

\* C7 as stated: every GAL20RA10 build of a design with a Registered
\* output that has no clock equation returns NoCLK tagged with the line of
\* the main equation of such an output.
C7_AlwaysNoCLK ==
    (FamilyC /\ Returned /\ \E n \in Olmcs : RegNoClk(bp.olmcs[n])) =>
        /\ Failed("NoCLK")
        /\ \E n \in Olmcs : /\ RegNoClk(bp.olmcs[n])
                            /\ result.line = bp.olmcs[n].output[1].term.line_num

C7_Inv ==
    (FamilyC /\ \E n \in Olmcs : RegNoClk(bp.olmcs[n])) =>
        /\ pc # "done"
        /\ Failed("NoCLK") =>
              /\ i + 1 = FirstOlmc(RegNoClk)
              /\ result.line = bp.olmcs[i + 1].output[1].term.line_num

C7_Step ==
    (/\ FamilyC /\ pc = "set_aux_eqns" /\ RegNoClk(bp.olmcs[i + 1])
     /\ FitsOneRow(gal, bp.olmcs[i + 1].arst) /\ FitsOneRow(gal, bp.olmcs[i + 1].aprst)) =>
        /\ pc' = "failed" /\ result'.kind = "err" /\ result'.code = "NoCLK"
        /\ result'.line = bp.olmcs[i + 1].output[1].term.line_num

\* C7 as amended: a GAL20RA10 build of a design with a Registered output
\* that has no clock equation never succeeds; when set_aux_eqns comes to
\* such an OLMC whose async-reset and async-preset terms compile, it fails
\* with NoCLK tagged with the line of that output's main equation; and a
\* NoCLK that is reported is that of the first such OLMC.  (A diagnostic
\* raised earlier - by set_core_eqns, by a preceding OLMC, or by the
\* OLMC's own async-reset or async-preset term - is reported instead.)
C7_NoCLK == []C7_Inv /\ [][C7_Step]_vars

\* A GAL20RA10 build that failed with NoCLK for OLMC 4, the only
\* Registered output without a clock equation.
C7_Witness ==
    /\ FamilyC /\ Failed("NoCLK") /\ i = 4 /\ result.line = LineOf(4, 1)
    /\ RegNoClk(bp.olmcs[5])
    /\ \A n \in Olmcs \ {5} : ~RegNoClk(bp.olmcs[n])
    /\ is_some(bp.olmcs[5].arst) /\ gal.fuses # Intact[bp.chip]

CombTri(olmc) == is_mode(olmc.output, "Combinatorial") /\ is_some(olmc.tri_con)

\* C8 as stated: on every device, a build of a design with a
\* tristate-enable equation on a Combinatorial output returns
\* UnmatchedTristate.
C8_AlwaysUnmatchedTristate ==
    (Returned /\ \E n \in Olmcs : CombTri(bp.olmcs[n])) => Failed("UnmatchedTristate")

C8_Inv ==
    (\E n \in Olmcs : CombTri(bp.olmcs[n])) =>
        /\ pc # "done"
        /\ Failed("UnmatchedTristate") =>
              /\ i + 1 = FirstOlmc(CombTri)
              /\ result.line = bp.olmcs[i + 1].tri_con[1].line_num

C8_Step ==
    (pc = "set_core_eqns_tri" /\ CombTri(bp.olmcs[i + 1])) =>
        /\ pc' = "failed" /\ result'.kind = "err" /\ result'.code = "UnmatchedTristate"
        /\ result'.line = bp.olmcs[i + 1].tri_con[1].line_num
        /\ gal' = gal

\* C8 as amended: on every device, a build of a design with a
\* tristate-enable equation on a Combinatorial output never succeeds; when
\* set_core_eqns comes to the enable equation of such an OLMC it fails with
\* UnmatchedTristate tagged with that equation's line, compiling nothing of
\* it; and an UnmatchedTristate that is reported is that of the first such
\* OLMC.  (A diagnostic raised earlier - DisallowedControl, or one from the
\* main equation of that OLMC or from a preceding OLMC - is reported
\* instead.)
C8_UnmatchedTristate == []C8_Inv /\ [][C8_Step]_vars

\* A GAL20RA10 build that failed with UnmatchedTristate for the enable
\* equation of OLMC 4, after compiling the main equations up to it.
C8_Witness ==
    /\ FamilyC /\ Failed("UnmatchedTristate") /\ i = 4 /\ result.line = LineOf(4, 2)
    /\ CombTri(bp.olmcs[5])
    /\ gal.fuses # Intact[bp.chip]

\* C1: for every sequence of 8 OLMC configurations analyse_mode returns
\* Registered if any output is Registered; otherwise Complex if any output
\* is Tristate; otherwise Complex if some feedback-used OLMC has no output
\* and sits at index 3 or 4 (0-based) or has an output; otherwise Simple.
\* A Registered output gives Registered whatever the other OLMCs are.
C1_ModePriority ==
    pc = "analysed" =>
        /\ Len(bp.olmcs) = 8
        /\ mode = ModeOf(bp.olmcs)
        /\ (\E n \in Olmcs : is_mode(bp.olmcs[n].output, "Registered")) => mode = "Registered"

\* One Registered output among Tristate outputs that are used as feedback.
C1_Witness ==
    /\ pc = "analysed" /\ mode = "Registered"
    /\ Cardinality({n \in Olmcs : is_mode(bp.olmcs[n].output, "Registered")}) = 1
    /\ Cardinality({n \in Olmcs : /\ is_mode(bp.olmcs[n].output, "Tristate")
                                  /\ bp.olmcs[n].feedback}) = 7

\* Every pin of the term has a column.
Resolves(g, term) ==
    \A r \in 1 .. Len(term.pins) : \A k \in 1 .. Len(term.pins[r]) :
        pin_to_column(g, term.pins[r][k].pin).ok

\* The fuses (indices of g.fuses) that the AND-groups of the term select when
\* group r is put in row r - 1 of the reservation: for each pin the column
\* of its polarity.
Selected(g, term, bounds) ==
    UNION {{(bounds.start_row + bounds.row_offset + r - 1) * num_cols(g.chip)
              + pin_to_column(g, term.pins[r][k].pin).col
              + (IF term.pins[r][k].neg # needs_flip(g, term.pins[r][k].pin) THEN 1 ELSE 0)
              + 1 : k \in 1 .. Len(term.pins[r])} : r \in 1 .. Len(term.pins)}

\* g2 is g but for rows lo .. hi of the main array.
SameOutside(g, g2, lo, hi) ==
    /\ [g2 EXCEPT !.fuses = g.fuses] = g
    /\ Len(g2.fuses) = Len(g.fuses)
    /\ SubSeq(g2.fuses, 1, lo * num_cols(g.chip)) = SubSeq(g.fuses, 1, lo * num_cols(g.chip))
    /\ SubSeq(g2.fuses, (hi + 1) * num_cols(g.chip) + 1, Len(g.fuses))
         = SubSeq(g.fuses, (hi + 1) * num_cols(g.chip) + 1, Len(g.fuses))

\* The fuses (indices) of rows lo .. hi.
RowFuses(g, lo, hi) == lo * num_cols(g.chip) + 1 .. (hi + 1) * num_cols(g.chip)

\* g2 is g with the fuses S, which lie in rows lo .. hi, blown and nothing
\* else changed.
Blown(g, g2, lo, hi, S) ==
    /\ SameOutside(g, g2, lo, hi)
    /\ \A k \in S : k \in RowFuses(g, lo, hi) /\ ~g2.fuses[k]
    /\ \A k \in RowFuses(g, lo, hi) : g2.fuses[k] => g.fuses[k]
    /\ \A k \in RowFuses(g, lo, hi) : (g.fuses[k] /\ ~g2.fuses[k]) => k \in S

\* A call of add_term, as C4 describes it.
C4_Step ==
    (i' = i + 1 /\ call'.op = "add_term") =>
        LET term == call'.term[1]
            bounds == call'.bounds
            k == bounds.max_row - bounds.row_offset
        IN  (k >= 1 /\ Resolves(gal, term)) =>
                /\ Len(term.pins) = k =>
                      /\ result' = Ok
                      /\ Blown(gal, gal', bounds.start_row + bounds.row_offset,
                               bounds.start_row + bounds.max_row - 1,
                               Selected(gal, term, bounds))
                /\ Len(term.pins) = k + 1 =>
                      /\ result'.kind = "err"
                      /\ result'.line = term.line_num
                      /\ result'.code = IF k = 1 THEN "MoreThanOneProduct"
                                        ELSE "TooManyProducts"

\* C4: add_term with a term of exactly k AND-groups, all pins of which
\* have a column, into a reservation of k rows succeeds and changes the fuse
\* state only by blowing, in row r of the reservation, the fuses that group r
\* selects (no row is zeroed as unused); with k + 1 AND-groups it fails
\* with a diagnostic tagged with the term's line, MoreThanOneProduct when
\* k = 1 and TooManyProducts otherwise.
C4_ExactFit == [][C4_Step]_vars

\* GAL16V8 in Registered mode: a term of 7 AND-groups compiled into the 7
\* rows 57 .. 63 of OLMC 0; row 57 has the fuses of pin 3 and of /pin 12
\* blown and the others intact.
C4_Witness ==
    /\ bp.chip = "GAL16V8" /\ i = 1 /\ pc = "add_term" /\ result = Ok
    /\ call.op = "add_term" /\ Len(call.term[1].pins) = 7
    /\ call.bounds = Bounds(56, 8, 1)
    /\ ~FuseAt(gal, 57, 4) /\ ~FuseAt(gal, 57, 31) /\ FuseAt(gal, 57, 30)
    /\ ~FuseAt(gal, 63, 4) /\ FuseAt(gal, 63, 0) /\ FuseAt(gal, 56, 4)

\* A call that compiles the constant-false term, or no term at all.
C5_Step ==
    (/\ i' = i + 1
     /\ \/ call'.op = "add_term" /\ call'.term[1].pins = <<>>
        \/ call'.op = "add_term_opt" /\ is_none(call'.term)) =>
        /\ result' = Ok
        /\ SameOutside(gal, gal', call'.bounds.start_row + call'.bounds.row_offset,
                       call'.bounds.start_row + call'.bounds.max_row - 1)
        /\ \A k \in RowFuses(gal, call'.bounds.start_row + call'.bounds.row_offset,
                              call'.bounds.start_row + call'.bounds.max_row - 1) :
              ~gal'.fuses[k]

\* C5: compiling the constant-false term (no AND-group) into a reservation
\* of k rows blows every column of all k rows and changes nothing else,
\* and add_term_opt with an absent term leaves the fuse state exactly so.
C5_FalseTerm == [][C5_Step]_vars

\* GAL20RA10: add_term_opt without a term into the async-reset row of
\* OLMC 0 (row 74) has blown that row and left its neighbours intact.
C5_Witness ==
    /\ bp.chip = "GAL20RA10" /\ i = 1 /\ pc = "add_term" /\ result = Ok
    /\ call.op = "add_term_opt" /\ is_none(call.term)
    /\ call.bounds = Bounds(72, 3, 2)
    /\ \A c \in 0 .. 39 : ~FuseAt(gal, 74, c)
    /\ \A c \in 0 .. 39 : FuseAt(gal, 73, c) /\ FuseAt(gal, 75, c)

\* A call of add_term or add_term_opt that returns TooManyProducts, as C11
\* describes it.
C11_Step ==
    (i' = i + 1 /\ result'.kind = "err" /\ result'.code = "TooManyProducts") =>
        /\ result'.max = call'.bounds.max_row - call'.bounds.row_offset
        /\ result'.seen = Len(call'.term[1].pins)

\* C11: whenever add_term fails with TooManyProducts{max, seen}, max is the
\* number of rows the reservation offered to the term (max_row minus the
\* row_offset on entry) and seen is the number of AND-groups of the term.
C11_MaxIsRowsOffered == [][C11_Step]_vars

\* The main equation of the OLMC starts at row 0 of its block: no output,
\* any output in Simple mode, or a Registered output on Family A.
MainAtRow0(g, olmc) ==
    \/ is_none(olmc.output)
    \/ FamilyA /\ (get_mode(g) = "Simple" \/ is_mode(olmc.output, "Registered"))

\* The first row of the block of OLMC n (0-based) and its last row.
BlockFirst(n) == get_bounds(bp.chip, n).start_row
BlockLast(n) == get_bounds(bp.chip, n).start_row + get_bounds(bp.chip, n).max_row - 1

\* When set_core_eqns comes to an enable term, row 0 of the block is still
\* untouched unless the main equation started there; no build succeeds with
\* an enable term on an OLMC whose main equation starts at row 0.
C12_Inv ==
    /\ (pc = "set_core_eqns_tri" /\ ~MainAtRow0(gal, bp.olmcs[i + 1])) =>
          SubSeq(gal.fuses, BlockFirst(i) * num_cols(bp.chip) + 1,
                 (BlockFirst(i) + 1) * num_cols(bp.chip))
            = SubSeq(Intact[bp.chip], BlockFirst(i) * num_cols(bp.chip) + 1,
                     (BlockFirst(i) + 1) * num_cols(bp.chip))
    /\ pc = "done" =>
          \A n \in Olmcs : is_some(bp.olmcs[n].tri_con) => ~MainAtRow0(gal, bp.olmcs[n])

\* The two halves of an iteration of set_core_eqns on an OLMC that has an
\* enable term.
C12_Step ==
    /\ (pc = "set_core_eqns" /\ is_some(bp.olmcs[i + 1].tri_con)
          /\ ~MainAtRow0(gal, bp.olmcs[i + 1])) =>
            SameOutside(gal, gal', BlockFirst(i) + 1, BlockLast(i))
    /\ pc = "set_core_eqns_tri" =>
          /\ SameOutside(gal, gal', BlockFirst(i), BlockFirst(i))
          /\ MainAtRow0(gal, bp.olmcs[i + 1]) =>
                /\ gal' = gal
                /\ pc' = "failed" /\ result'.kind = "err"
                /\ result'.code \in {"UndefinedOutput", "UnmatchedTristate", "TristateReg"}
                /\ result'.line = bp.olmcs[i + 1].tri_con[1].line_num

\* C12: in every build of every family, an enable term that is compiled is
\* written only into row 0 of its OLMC's block, and the main equation of
\* that OLMC was written only into rows 1 and above of the block (row 0 is
\* still intact when the enable term is compiled); an enable term on an OLMC
\* whose main equation starts at row 0 (no output, any output in Simple
\* mode, a Registered output on Family A) is rejected with a diagnostic
\* tagged with its line before anything of it is compiled.
C12_EnableRow == []C12_Inv /\ [][C12_Step]_vars

\* A finished GALxxV8 build in which OLMC 0 is a Tristate output with an
\* enable term: the enable term sits in row 0 of the block, the main
\* equation from row 1 on.
C12_Witness ==
    /\ pc = "done" /\ FamilyA
    /\ is_mode(bp.olmcs[1].output, "Tristate") /\ is_some(bp.olmcs[1].tri_con)
    /\ Len(bp.olmcs[1].output[1].term.pins) > 0
    /\ Len(bp.olmcs[1].tri_con[1].pins) > 0
    /\ TermBlown(gal, bp.olmcs[1].tri_con[1], BlockFirst(0))
    /\ TermBlown(gal, bp.olmcs[1].output[1].term, BlockFirst(0) + 1)
    /\ \E c \in 0 .. num_cols(bp.chip) - 1 : FuseAt(gal, BlockFirst(0), c)

\* The eight (family, mode) column tables, each with the row length of its
\* device.
ColumnTables ==
    {<<PIN_TO_COL_16_SIMPLE, num_cols("GAL16V8")>>,
     <<PIN_TO_COL_16_COMPLEX, num_cols("GAL16V8")>>,
     <<PIN_TO_COL_16_REGISTERED, num_cols("GAL16V8")>>,
     <<PIN_TO_COL_20_SIMPLE, num_cols("GAL20V8")>>,
     <<PIN_TO_COL_20_COMPLEX, num_cols("GAL20V8")>>,
     <<PIN_TO_COL_20_REGISTERED, num_cols("GAL20V8")>>,
     <<PIN_TO_COL_22V10, num_cols("GAL22V10")>>,
     <<PIN_TO_COL_20RA10, num_cols("GAL20RA10")>>}

\* Both polarity columns of every pin that has a column lie inside a row.
C13_Inv ==
    \A t \in ColumnTables : \A p \in DOMAIN t[1] :
        t[1][p].ok => (t[1][p].col >= 0 /\ t[1][p].col + 1 < t[2])

\* A call of add_term (directly or through add_term_opt), returning Ok or
\* an error.
C13_Step ==
    (i' = i + 1) =>
        LET bounds == call'.bounds
            lo == bounds.start_row + bounds.row_offset
            hi == bounds.start_row + bounds.max_row - 1
        IN  /\ SameOutside(gal, gal', lo, hi)
            /\ \A k \in RowFuses(gal, lo, hi) : gal'.fuses[k] => gal.fuses[k]

\* C13: add_term, whether it succeeds or fails, changes only main-array
\* fuses in rows start_row + row_offset up to but excluding start_row +
\* max_row of its reservation, changes them only from intact to blown, and
\* leaves xor, sig, ac1, pt, syn and ac0 (and the chip) as they were; the two
\* polarity columns of every pin of every (family, mode) table lie inside
\* one row.
C13_Frame == []C13_Inv /\ [][C13_Step]_vars

\* A second call on the block of the first one failed with TooManyProducts
\* after it had written some of its rows: the reservation holds blown fuses
\* and intact ones, and a fuse outside it is still intact.
C13_Witness ==
    /\ pc = "failed" /\ result.kind = "err" /\ result.code = "TooManyProducts"
    /\ i = 2 /\ call.bounds.start_row = BlockFirst(0)
    /\ gal.fuses # Prepared(bp).fuses
    /\ \E k \in RowFuses(gal, call.bounds.start_row + call.bounds.row_offset,
                         call.bounds.start_row + call.bounds.max_row - 1) :
          ~gal.fuses[k]
    /\ \E k \in RowFuses(gal, call.bounds.start_row + call.bounds.row_offset,
                         call.bounds.start_row + call.bounds.max_row - 1) :
          gal.fuses[k]
    /\ gal.fuses[Len(gal.fuses)]

\* The pin of OLMC n (1-based position in bp.olmcs) is read by some term of
\* the design.
PinRead(n) ==
    \/ \E m \in Olmcs : OlmcUses(bp.olmcs[m], min_olmc_pin(bp.chip) + n - 1)
    \/ OptUses(bp.ar, min_olmc_pin(bp.chip) + n - 1)
    \/ OptUses(bp.sp, min_olmc_pin(bp.chip) + n - 1)

\* The feedback-used flag is set on every OLMC whose pin is read.
FeedbackFlagged == \A n \in Olmcs : PinRead(n) => bp.olmcs[n].feedback

\* The mode bits say Simple (syn set, ac0 clear).
SimpleBits == gal.syn /\ ~gal.ac0

\* The Simple-mode column table of a Family A device.
SimpleTable(chip) ==
    IF chip = "GAL16V8" THEN PIN_TO_COL_16_SIMPLE ELSE PIN_TO_COL_20_SIMPLE

\* C14: in a Family A build whose mode is Simple and whose feedback-used
\* flag is set on every OLMC whose pin is read by some term, no pin
\* resolution fails with BadAnalysis; the pins without a Simple-mode column
\* (BadAnalysis entries) are exactly those of OLMCs 3 and 4, pins 15 and 16
\* on the GAL16V8 and 18 and 19 on the GAL20V8.
C14_NoBadAnalysis ==
    /\ \A chip \in {"GAL16V8", "GAL20V8"} : \A pin \in 1 .. num_pins(chip) :
          (SimpleTable(chip)[pin] = BAD)
            <=> (pin_to_olmc(chip, pin) \in {Some(3), Some(4)})
    /\ {p \in 1 .. 20 : PIN_TO_COL_16_SIMPLE[p] = BAD} = {15, 16}
    /\ {p \in 1 .. 24 : PIN_TO_COL_20_SIMPLE[p] = BAD} = {18, 19}
    /\ (FamilyA /\ SimpleBits /\ FeedbackFlagged) => ~Failed("BadAnalysis")

\* A finished Simple-mode build of a GALxxV8 whose terms read the pin of an
\* OLMC that has no output (not OLMC 3 or 4) and has its feedback flag set.
C14_Witness ==
    /\ pc = "done" /\ FamilyA /\ SimpleBits /\ FeedbackFlagged
    /\ \E n \in Olmcs : PinRead(n) /\ bp.olmcs[n].feedback /\ is_none(bp.olmcs[n].output)
    /\ gal.fuses # Intact[bp.chip]

====
